---- MODULE Spec2Model ----
(***************************************************************************)
(* html-tool-manager: the tool table, the tool_snapshot table and the tool *)
(* files, with the repository methods and the HTTP handlers that change    *)
(* them.                                                                   *)
(*                                                                         *)
(*   Spec      every repository call / HTTP request runs to completion     *)
(*             before the next one starts (one action per call).           *)
(*   SpecConc  two requests run SnapshotRepository.create_snapshot and     *)
(*             ToolRepository.update_tool statement by statement, each in  *)
(*             its own Session, interleaved in every order.                *)
(*   SpecLife  tools and snapshots are created, read, updated field by     *)
(*             field and deleted, one call at a time.                      *)
(*   SpecPath  the calls of Spec that write tool files, after a restart    *)
(*             with another tools_dir.                                     *)
(*   SpecFile  one file write, system call by system call, and a reader.   *)
(*   SpecBackup  BackupService.create_backup and its rotation.             *)
(*   SpecStale the calls of Spec, after the tool was updated once.         *)
(*   SpecRace  two requests for one tool (delete, manual snapshot, content *)
(*             update, restore) run their handlers step by step.           *)
(*   SpecTie   create_snapshot called several times in one clock reading.  *)
(***************************************************************************)
EXTENDS Integers, Sequences, FiniteSets, TLC

\* ------------------------------------------------------------------ bounds
\* number of rows the tool table may hold
MaxTools == 2
\* number of clock readings (datetime.now) in one behaviour, after the seed
MaxClock == 2
\* retention limit; the program's value is 20 (models/snapshot.py:14), scaled
\* down; the seeds below start a run at and just under the limit
MAX_SNAPSHOTS_PER_TOOL == 3
\* SpecBackup: the seconds, after the first, in which backups are made
MaxBackupClock == 3
\* SpecBackup: BackupService.max_generations; the program's default is 7
\* (core/config.py:25), scaled down
max_generations == 2

\* --------------------------------------------------------------- constants
MAX_CONTENT_SIZE_BYTES == 10485760
\* bytes generate_react_html adds around the JSX code
ReactTemplateBytes == 2007
\* default of get_snapshots_by_tool(limit=100)
DefaultListLimit == 100

\* ---------------------------------------------------------------- contents
\* A file or snapshot content: a body, wrapped `wraps` times in the React
\* template.
Bodies == {"A", "B", "BIG"}
Content(b) == [body |-> b, wraps |-> 0]
\* an absent file / an html_content that is None
NoFile == [body |-> "NoFile", wraps |-> 0]
NoContent == [body |-> "None", wraps |-> 0]
\* a file opened for writing of which the content is not written, or not
\* all of it
Truncated == [body |-> "TRUNCATED", wraps |-> 0]

\* len(body.encode("utf-8"))
BodyBytes(b) == IF b = "BIG" THEN MAX_CONTENT_SIZE_BYTES + 1 ELSE 8

generate_react_html(c) == [body |-> c.body, wraps |-> c.wraps + 1]

\* "react.production.min.js" in content
HasReactCdn(c) == c.wraps > 0

\* content_size = len(html_content.encode("utf-8"))
content_size(c) == BodyBytes(c.body) + c.wraps * ReactTemplateBytes

\* ------------------------------------------------------------------- state
VARIABLES
    tool,           \* rows of table tool
    tool_snapshot,  \* rows of table tool_snapshot
    files,          \* path -> content of the file at that path, or NoFile
    now,            \* the clock read by datetime.now(timezone.utc)
    last,           \* the last call and what it answered
    proc,           \* SpecConc: where each request in flight stands
    db_lock,        \* SpecConc: the request holding SQLite's write lock, or NoProc
    deleted_ids,    \* SpecLife: the ids of the tools deleted so far
    tools_dir,      \* app_settings.tools_dir, read when the program starts
    temp_files,     \* SpecFile: path -> content of the temporary file made by
                    \* tempfile.mkstemp next to that path, or NoFile
    writer,         \* SpecFile: the file write in progress and where it stands
    seen,           \* SpecFile: what the last read of a tool file returned
    backups         \* SpecBackup: the files tools_<timestamp>.db in backup_dir,
                    \* each named by the second it was made in

vars == <<tool, tool_snapshot, files, now, last, proc, db_lock, deleted_ids,
          tools_dir, temp_files, writer, seen, backups>>
\* what only SpecLife changes
life == <<deleted_ids>>
\* the settings, which no call changes
config == <<tools_dir>>
\* what only SpecFile changes
fsys == <<temp_files, writer, seen>>
\* what only SpecBackup changes
bkp == <<backups>>
\* what no call of Spec and no step of SpecConc changes
apart == <<life, config, fsys, bkp>>
\* what a call of Spec leaves alone
conc == <<proc, db_lock, apart>>

ToolIds == 1..MaxTools
\* the default of tools_dir, and a directory APP_TOOLS_DIR can name instead
DefaultToolsDir == "static/tools"
OtherToolsDir == "other"
\* paths static/tools/<uuid4>/index.html, one directory per uuid4
InsidePaths == 1..MaxTools
\* a path whose real path is outside static/tools and outside OtherToolsDir
OutsidePath == 0
Paths == InsidePaths \cup {OutsidePath}
Names == {"n1", "n2"}
NoName == "None"
RestoreName == "pre-restore"
NoVersion == 0

Max(S) == CHOOSE x \in S : \A y \in S : y <= x
Min(S) == CHOOSE x \in S : \A y \in S : x <= y

\* INTEGER PRIMARY KEY without AUTOINCREMENT: the largest rowid plus one
NextId(rows) == IF rows = {} THEN 1 ELSE Max({r.id : r \in rows}) + 1

\* the call made last and what it answered: the status code, the value
\* returned ("ok") or the exception raised; what the body or the value is;
\* and the fields of an OptimisticLockError
Response(op, status, detail) ==
    [op |-> op, status |-> status, detail |-> detail,
     current_version |-> NoVersion, expected_version |-> NoVersion]

\* no file write in progress
IdleWriter ==
    [pc |-> "idle", kind |-> "", filepath |-> 0, content |-> NoFile,
     old |-> NoFile, result |-> "", failed |-> "", unlink_failed |-> FALSE]

\* the requests in flight
Procs == {1, 2}
NoProc == 0
NoRow == [id |-> 0]
Idle ==
    [pc |-> "idle", op |-> "", tool_id |-> 0, expected_version |-> NoVersion,
     count |-> 0, old |-> {}, deleted |-> {}, row |-> NoRow, calls |-> 0,
     result |-> "", snapshot_id |-> 0, content |-> NoFile, current |-> NoFile]

\* The tool table after POST /tools/ created one HTML tool with content A,
\* and its snapshots after k manual snapshot requests: the start of a run.
SeedTool ==
    [id |-> 1, name |-> "n1", filepath |-> 1, tool_type |-> "html",
     version |-> 1, updated_at |-> 0 - MAX_SNAPSHOTS_PER_TOOL]

SeedSnapshots(k) ==
    {[id |-> i, tool_id |-> 1, html_content |-> Content("A"),
      snapshot_type |-> "manual", name |-> "s1", created_at |-> i - k - 1] :
        i \in 1..k}

SeedCount == MAX_SNAPSHOTS_PER_TOOL - 1

Init ==
    /\ tool = {SeedTool}
    /\ tool_snapshot = SeedSnapshots(SeedCount)
    /\ files = [p \in Paths |-> IF p \in {OutsidePath, 1} THEN Content("A") ELSE NoFile]
    /\ now = 0
    /\ last = Response("init", "ok", "")
    /\ proc = [p \in Procs |-> Idle]
    /\ db_lock = NoProc
    /\ deleted_ids = {}
    /\ tools_dir = DefaultToolsDir
    /\ temp_files = [p \in Paths |-> NoFile]
    /\ writer = IdleWriter
    /\ seen = NoFile
    /\ backups = {}

\* ------------------------------------------------------ SnapshotRepository
SnapshotsOf(table, tool_id) == {s \in table : s.tool_id = tool_id}

\* select(func.count()).where(tool_id == tool_id)
count_snapshots(table, tool_id) == Cardinality(SnapshotsOf(table, tool_id))

\* OldestIds without the condition on tool_id
OldestIds_AnyTool(table, tool_id, to_delete) ==
    {D \in SUBSET table :
        /\ Cardinality(D) = IF to_delete < Cardinality(table)
                            THEN to_delete ELSE Cardinality(table)
        /\ \A d \in D, s \in table \ D : d.created_at <= s.created_at}

\* OldestIds ordering by created_at descending
OldestIds_Newest(table, tool_id, to_delete) ==
    LET rows == SnapshotsOf(table, tool_id)
    IN  {D \in SUBSET rows :
            /\ Cardinality(D) = IF to_delete < Cardinality(rows)
                                THEN to_delete ELSE Cardinality(rows)
            /\ \A d \in D, s \in rows \ D : d.created_at >= s.created_at}

\* select(id).where(tool_id).order_by(created_at.asc()).limit(to_delete):
\* every set of to_delete rows that no remaining row precedes in created_at
OldestIds(table, tool_id, to_delete) ==
    LET rows == SnapshotsOf(table, tool_id)
    IN  {D \in SUBSET rows :
            /\ Cardinality(D) = IF to_delete < Cardinality(rows)
                                THEN to_delete ELSE Cardinality(rows)
            /\ \A d \in D, s \in rows \ D : d.created_at <= s.created_at}

\* EvictFor keeping no slot free for the row about to be inserted
EvictFor_NoReserve(table, tool_id, count) ==
    LET threshold == MAX_SNAPSHOTS_PER_TOOL
    IN  IF count > threshold
        THEN {table \ D : D \in OldestIds(table, tool_id, count - threshold)}
        ELSE {table}

\* the tables create_snapshot can leave after eviction, for a count it read
EvictFor(table, tool_id, count) ==
    LET threshold == MAX_SNAPSHOTS_PER_TOOL - 1
    IN  IF count > threshold
        THEN {table \ D : D \in OldestIds(table, tool_id, count - threshold)}
        ELSE {table}

NewSnapshot(table, tool_id, html_content, snapshot_type, name, t) ==
    [id |-> NextId(table), tool_id |-> tool_id, html_content |-> html_content,
     snapshot_type |-> snapshot_type, name |-> name, created_at |-> t]

\* TooLarge accepting every size
TooLarge_Never(html_content) == FALSE

\* create_snapshot raises ValueError
TooLarge(html_content) == content_size(html_content) > MAX_CONTENT_SIZE_BYTES

\* the tables a whole create_snapshot call can leave (not TooLarge)
create_snapshot(table, tool_id, html_content, snapshot_type, name, t) ==
    {kept \cup {NewSnapshot(kept, tool_id, html_content, snapshot_type, name, t)} :
        kept \in EvictFor(table, tool_id, count_snapshots(table, tool_id))}

\* the snapshots, newest first: every order order_by(created_at.desc()) allows
IsDescending(seq) ==
    \A i, j \in 1..Len(seq) : i < j => seq[i].created_at >= seq[j].created_at

RECURSIVE Orderings(_)
Orderings(S) ==
    IF S = {} THEN {<<>>}
    ELSE UNION {{<<x>> \o rest : rest \in Orderings(S \ {x})} : x \in S}

Prefix(seq, n) == IF n < Len(seq) THEN SubSeq(seq, 1, n) ELSE seq

get_snapshots_by_tool(table, tool_id, limit) ==
    {Prefix(seq, limit) :
        seq \in {o \in Orderings(SnapshotsOf(table, tool_id)) : IsDescending(o)}}

\* SnapshotRepository.create_snapshot called directly
RepoCreateSnapshot(tool_id, html_content, snapshot_type, name) ==
    /\ now < MaxClock
    /\ UNCHANGED conc
    /\ IF TooLarge(html_content)
       THEN /\ last' = Response("repo.create_snapshot", "ValueError", "")
            /\ UNCHANGED <<tool, tool_snapshot, files, now>>
       ELSE /\ tool_snapshot' \in create_snapshot(tool_snapshot, tool_id,
                                    html_content, snapshot_type, name, now)
            /\ now' = now + 1
            /\ last' = Response("repo.create_snapshot", "ok", "ToolSnapshot")
            /\ UNCHANGED <<tool, files>>

\* ---------------------------------------------------------- ToolRepository
\* session.get(Tool, tool_id): the rows with that id (one or none)
get_tool(table, tool_id) == {r \in table : r.id = tool_id}

\* is_path_within_base(filepath, app_settings.tools_dir): the real path of
\* filepath is under the real path of tools_dir
is_path_within_base(filepath) ==
    tools_dir = DefaultToolsDir /\ filepath \in InsidePaths

\* f"{tools_dir}/{uuid.uuid4()}/index.html": a path no tool and no file has
FreshPaths(table, fs) ==
    LET unused == {p \in InsidePaths : fs[p] = NoFile /\ \A r \in table : r.filepath # p}
    IN  IF unused = {} THEN {} ELSE {Min(unused)}

\* ToolRepository.create_tool: a row for a Tool object with this filepath
create_tool(table, name, filepath, tool_type, t) ==
    table \cup {[id |-> NextId(table), name |-> name, filepath |-> filepath,
                 tool_type |-> tool_type, version |-> 1, updated_at |-> t]}

\* ToolRepository.create_tool called directly: no file is written
RepoCreateTool(name, filepath) ==
    /\ now < MaxClock
    /\ UNCHANGED conc
    /\ Cardinality(tool) < MaxTools
    /\ filepath \in FreshPaths(tool, files) \cup {OutsidePath}
    /\ tool' = create_tool(tool, name, filepath, "html", now)
    /\ now' = now + 1
    /\ last' = Response("repo.create_tool", "ok", "Tool")
    /\ UNCHANGED <<tool_snapshot, files>>

\* final_html: the content wrapped when the request says tool_type react
FinalHtml(html_content, tool_type) ==
    IF tool_type = "react" THEN generate_react_html(html_content) ELSE html_content

\* POST /tools/ -> ToolRepository.create_tool_with_content
ApiCreateTool(name, html_content, tool_type) ==
    /\ now < MaxClock
    /\ UNCHANGED conc
    /\ Cardinality(tool) < MaxTools
    /\ IF html_content = NoContent
       THEN /\ last' = Response("api.create_tool", "400", "html_content")
            /\ UNCHANGED <<tool, tool_snapshot, files, now>>
       ELSE \E filepath \in FreshPaths(tool, files) :
            LET final_html == FinalHtml(html_content, tool_type)
            IN  /\ files' = [files EXCEPT ![filepath] = final_html]
                /\ tool' = create_tool(tool, name, filepath, tool_type, now)
                /\ now' = now + 1
                /\ last' = Response("api.create_tool", "201", "ToolRead")
                /\ UNCHANGED tool_snapshot

\* version_conflict rejecting only a version older than the stored one
version_conflict_OlderOnly(row, expected_version) == row.version > expected_version

\* tool.version != expected_version
version_conflict(row, expected_version) == row.version # expected_version

\* update_row without the version increment
update_row_NoIncrement(row, name, t) ==
    [row EXCEPT !.name = name, !.updated_at = t]

\* setattr for the fields tool_update sets, updated_at = now, version += 1
update_row(row, name, t) ==
    [row EXCEPT !.name = name, !.updated_at = t, !.version = row.version + 1]

\* ToolRepository.update_tool called with a Tool object that sets the name
RepoUpdateTool(tool_id, name, expected_version) ==
    /\ now < MaxClock
    /\ UNCHANGED conc
    /\ IF get_tool(tool, tool_id) = {}
       THEN /\ last' = Response("repo.update_tool", "ok", "None")
            /\ UNCHANGED <<tool, tool_snapshot, files, now>>
       ELSE LET row == CHOOSE r \in get_tool(tool, tool_id) : TRUE
            IN  IF version_conflict(row, expected_version)
                THEN /\ last' = [Response("repo.update_tool", "OptimisticLockError", "")
                                    EXCEPT !.expected_version = expected_version,
                                           !.current_version = row.version]
                     /\ UNCHANGED <<tool, tool_snapshot, files, now>>
                ELSE /\ tool' = (tool \ {row}) \cup {update_row(row, name, now)}
                     /\ now' = now + 1
                     /\ last' = Response("repo.update_tool", "ok", "Tool")
                     /\ UNCHANGED <<tool_snapshot, files>>

\* ------------------------------------------------------------------ files
\* "read_error" is an OSError other than FileNotFoundError raised by a read,
\* "decode_error" the UnicodeDecodeError (a ValueError) of a read that finds
\* bytes that are not UTF-8, as a write cut short can leave them
IoOutcomes == {"ok", "read_error", "decode_error", "write_error"}

\* atomic_write_file writing the target in place
atomic_write_file_InPlace(fs, filepath, content, io) ==
    IF io = "write_error"
    THEN {[fs EXCEPT ![filepath] = Truncated]}
    ELSE {[fs EXCEPT ![filepath] = content]}

\* atomic_write_file that never replaces the target
atomic_write_file_Untouched(fs, filepath, content, io) == {fs}

\* atomic_write_file: the new content after os.replace, or the file untouched
atomic_write_file(fs, filepath, content, io) ==
    IF io = "write_error" THEN {fs} ELSE {[fs EXCEPT ![filepath] = content]}

\* open_write whose write never reaches the file
open_write_Lost(fs, filepath, content, io) == {fs}

\* with open(filepath, "w") as f: f.write(content)
open_write(fs, filepath, content, io) ==
    IF io = "write_error"
    THEN {fs, [fs EXCEPT ![filepath] = Truncated]}
    ELSE {[fs EXCEPT ![filepath] = content]}

\* ------------------------------------------------------------ api/tools.py
\* auto_snapshot without the comparison with the content to be written
auto_snapshot_Always(table, tool_id, current_content, final_html, t) ==
    IF current_content # NoFile /\ ~TooLarge(current_content)
    THEN create_snapshot(table, tool_id, current_content, "auto", NoName, t)
    ELSE {table}

\* the auto snapshot step of update_tool: the tables it can leave
auto_snapshot(table, tool_id, current_content, final_html, t) ==
    IF current_content # NoFile /\ current_content # final_html
       /\ ~TooLarge(current_content)
    THEN create_snapshot(table, tool_id, current_content, "auto", NoName, t)
    ELSE {table}

\* PUT /tools/{tool_id}; version is the request's "version" key (NoVersion
\* when absent), which ToolCreate does not declare
ApiUpdateTool(tool_id, name, html_content, tool_type, version, io) ==
    /\ now < MaxClock
    /\ io = "decode_error"
         => \E r \in get_tool(tool, tool_id) : files[r.filepath] = Truncated
    /\ UNCHANGED conc
    /\ IF get_tool(tool, tool_id) = {}
       THEN /\ last' = Response("api.update_tool", "404", "tool")
            /\ UNCHANGED <<tool, tool_snapshot, files, now>>
       ELSE
       LET tool_to_update == CHOOSE r \in get_tool(tool, tool_id) : TRUE
           final_html == FinalHtml(html_content, tool_type)
           filepath == tool_to_update.filepath
       IN
       IF html_content = NoContent
       THEN \* repo.update_tool(tool_id, tool_to_update): expected_version missing
            /\ last' = Response("api.update_tool", "500", "TypeError")
            /\ UNCHANGED <<tool, tool_snapshot, files, now>>
       ELSE IF ~is_path_within_base(filepath)
       THEN /\ last' = Response("api.update_tool", "400", "filepath")
            /\ UNCHANGED <<tool, tool_snapshot, files, now>>
       ELSE IF io = "read_error" /\ files[filepath] # NoFile
       THEN /\ last' = Response("api.update_tool", "500", "OSError")
            /\ UNCHANGED <<tool, tool_snapshot, files, now>>
       ELSE IF io = "decode_error" /\ files[filepath] = Truncated
       THEN \* except ValueError: pass; no snapshot, and the write goes on
            /\ last' = Response("api.update_tool", "500", "TypeError")
            /\ files' \in atomic_write_file(files, filepath, final_html, "ok")
            /\ UNCHANGED <<tool, tool_snapshot, now>>
       ELSE \* the snapshot is committed, then the file is written, then
            \* repo.update_tool(tool_id, tool_to_update) raises TypeError
            /\ last' = Response("api.update_tool", "500", IF io = "write_error"
                                        THEN "OSError" ELSE "TypeError")
            /\ UNCHANGED tool
            /\ files' \in atomic_write_file(files, filepath, final_html, io)
            /\ tool_snapshot' \in auto_snapshot(tool_snapshot, tool_id,
                                        files[filepath], final_html, now)
            /\ now' = IF tool_snapshot' # tool_snapshot THEN now + 1 ELSE now

\* -------------------------------------------------------- api/snapshots.py
\* get_snapshot without the check of the owner
get_snapshot_AnyOwner(table, tool_id, snapshot_id) ==
    {s \in table : s.id = snapshot_id}

\* get_snapshot(tool_id, snapshot_id): the rows with that id and that owner
get_snapshot(table, tool_id, snapshot_id) ==
    {s \in table : s.id = snapshot_id /\ s.tool_id = tool_id}

\* POST /tools/{tool_id}/snapshots/
ApiCreateSnapshot(tool_id, snapshot_type, name, io) ==
    /\ now < MaxClock
    /\ UNCHANGED conc
    /\ IF get_tool(tool, tool_id) = {}
       THEN /\ last' = Response("api.create_snapshot", "404", "tool")
            /\ UNCHANGED <<tool, tool_snapshot, files, now>>
       ELSE
       LET row == CHOOSE r \in get_tool(tool, tool_id) : TRUE
           current_content == files[row.filepath]
       IN
       IF current_content = NoFile
       THEN /\ last' = Response("api.create_snapshot", "404", "file")
            /\ UNCHANGED <<tool, tool_snapshot, files, now>>
       ELSE IF io = "read_error"
       THEN /\ last' = Response("api.create_snapshot", "500", "OSError")
            /\ UNCHANGED <<tool, tool_snapshot, files, now>>
       ELSE IF TooLarge(current_content)
       THEN /\ last' = Response("api.create_snapshot", "413", "")
            /\ UNCHANGED <<tool, tool_snapshot, files, now>>
       ELSE /\ tool_snapshot' \in create_snapshot(tool_snapshot, tool_id,
                                    current_content, snapshot_type, name, now)
            /\ now' = now + 1
            /\ last' = Response("api.create_snapshot", "201", "SnapshotRead")
            /\ UNCHANGED <<tool, files>>

\* content_to_write: raw JSX of a React tool is wrapped again
ContentToWrite(row, snapshot) ==
    IF row.tool_type = "react" /\ ~HasReactCdn(snapshot.html_content)
    THEN generate_react_html(snapshot.html_content)
    ELSE snapshot.html_content

\* restore_backup that never saves the previous content
restore_backup_Skip(table, tool_id, current_content, t) == {table}

\* the backup snapshot restore_snapshot takes after the write; a ValueError
\* for its size is passed over
restore_backup(table, tool_id, current_content, t) ==
    IF TooLarge(current_content)
    THEN {table}
    ELSE create_snapshot(table, tool_id, current_content, "auto", RestoreName, t)

\* the path checks of restore_snapshot: filepath starts with "static/tools/",
\* holds no "..", and its real path is under the real path of "static/tools"
restore_path_valid(filepath) == filepath \in InsidePaths

\* a restore that stores the tool as an update does
refresh_Touched(table, tool_id, t) ==
    {IF r.id = tool_id THEN update_row(r, r.name, t) ELSE r : r \in table}

\* session.refresh(tool) at the end of restore_snapshot, which has assigned
\* nothing to the tool: the rows as they are stored
refresh(table, tool_id, t) == table

\* POST /tools/{tool_id}/snapshots/{snapshot_id}/restore
ApiRestoreSnapshot(tool_id, snapshot_id, io) ==
    /\ now < MaxClock
    /\ UNCHANGED conc
    /\ IF get_tool(tool, tool_id) = {}
       THEN /\ last' = Response("api.restore_snapshot", "404", "tool")
            /\ UNCHANGED <<tool, tool_snapshot, files, now>>
       ELSE IF get_snapshot(tool_snapshot, tool_id, snapshot_id) = {}
       THEN /\ last' = Response("api.restore_snapshot", "404", "snapshot")
            /\ UNCHANGED <<tool, tool_snapshot, files, now>>
       ELSE
       LET row == CHOOSE r \in get_tool(tool, tool_id) : TRUE
           snapshot == CHOOSE x \in get_snapshot(tool_snapshot, tool_id, snapshot_id) : TRUE
           filepath == row.filepath
           current_content == files[filepath]
           content_to_write == ContentToWrite(row, snapshot)
       IN
       IF ~restore_path_valid(filepath)
       THEN /\ last' = Response("api.restore_snapshot", "400", "filepath")
            /\ UNCHANGED <<tool, tool_snapshot, files, now>>
       ELSE IF current_content = NoFile
       THEN /\ last' = Response("api.restore_snapshot", "404", "file")
            /\ UNCHANGED <<tool, tool_snapshot, files, now>>
       ELSE IF io = "read_error"
       THEN /\ last' = Response("api.restore_snapshot", "500", "OSError")
            /\ UNCHANGED <<tool, tool_snapshot, files, now>>
       ELSE IF io = "write_error"
       THEN /\ files' \in open_write(files, filepath, content_to_write, io)
            /\ last' = Response("api.restore_snapshot", "500", "OSError")
            /\ UNCHANGED <<tool, tool_snapshot, now>>
       ELSE /\ last' = Response("api.restore_snapshot", "200", "ToolRead")
            /\ tool' = refresh(tool, tool_id, now)
            /\ files' \in open_write(files, filepath, content_to_write, io)
            /\ tool_snapshot' \in restore_backup(tool_snapshot, tool_id,
                                                 current_content, now)
            /\ now' = IF tool_snapshot' # tool_snapshot THEN now + 1 ELSE now

\* ------------------------------------------------------------------- Spec
\* the arguments the calls are tried with
\* create_snapshot(tool_id, html_content, snapshot_type, name)
SnapshotInputs ==
    {<<Content("B"), "manual", "s1">>, <<Content("B"), "auto", NoName>>,
     <<Content("BIG"), "manual", "s1">>}
\* POST /tools/{id}/snapshots/: snapshot_type, name, and what the read does
SnapshotRequests ==
    {<<"manual", "s1", "ok">>, <<"auto", NoName, "ok">>,
     <<"manual", "s1", "read_error">>}
CreateInputs == {<<Content("A"), "html">>, <<Content("A"), "react">>,
                 <<NoContent, "html">>}
\* the bodies of PUT /tools/{id}: the content, the tool_type and the version
\* the request carries, and what the file system does during the request
UpdateRequest(html_content, tool_type, version, io) ==
    [html_content |-> html_content, tool_type |-> tool_type,
     version |-> version, io |-> io]
UpdateRequests ==
    {UpdateRequest(Content(b), "None", 1, "ok") : b \in Bodies}
    \cup {UpdateRequest(Content("B"), "None", NoVersion, "ok"),
          UpdateRequest(Content("A"), "react", 1, "ok"),
          UpdateRequest(NoContent, "None", 1, "ok"),
          UpdateRequest(NoContent, "None", NoVersion, "ok"),
          UpdateRequest(Content("B"), "None", 1, "read_error"),
          UpdateRequest(Content("B"), "None", 1, "write_error")}
\* the snapshot ids a restore is asked for: the stored ones and one that is not
SnapshotIds(table) == {s.id : s \in table} \cup {NextId(table)}
\* POST .../{snapshot_id}/restore: the id, and what the file system does
RestoreRequests(table) ==
    {<<sid, "ok">> : sid \in SnapshotIds(table)}
    \cup {<<sid, io>> : sid \in {s.id : s \in SeedSnapshots(SeedCount)} \cap {s.id : s \in table},
                        io \in {"read_error", "write_error"}}

Next ==
    \/ \E t \in ToolIds, c \in SnapshotInputs :
          RepoCreateSnapshot(t, c[1], c[2], c[3])
    \/ \E p \in Paths : RepoCreateTool("n1", p)
    \/ \E c \in CreateInputs : ApiCreateTool("n1", c[1], c[2])
    \/ \E t \in ToolIds, v \in 1..2 : RepoUpdateTool(t, "n2", v)
    \/ \E t \in ToolIds, r \in UpdateRequests :
          ApiUpdateTool(t, "n2", r.html_content, r.tool_type, r.version, r.io)
    \/ \E t \in ToolIds, r \in SnapshotRequests :
          ApiCreateSnapshot(t, r[1], r[2], r[3])
    \/ \E t \in ToolIds, r \in RestoreRequests(tool_snapshot) :
          ApiRestoreSnapshot(t, r[1], r[2])

Spec == Init /\ [][Next]_vars

\* ============================================================== SpecStale
\* The calls of Spec, made after ToolRepository.update_tool has moved the
\* tool to version 2: a caller that read the tool before that holds
\* version 1.
UpdatedSeedTool == update_row(SeedTool, "n2", 1 - MAX_SNAPSHOTS_PER_TOOL)

InitStale ==
    /\ tool = {UpdatedSeedTool}
    /\ tool_snapshot = SeedSnapshots(SeedCount - 1)
    /\ files = [p \in Paths |-> IF p \in {OutsidePath, 1} THEN Content("A") ELSE NoFile]
    /\ now = 0
    /\ last = Response("init", "ok", "")
    /\ proc = [p \in Procs |-> Idle]
    /\ db_lock = NoProc
    /\ deleted_ids = {}
    /\ tools_dir = DefaultToolsDir
    /\ temp_files = [p \in Paths |-> NoFile]
    /\ writer = IdleWriter
    /\ seen = NoFile
    /\ backups = {}

SpecStale == InitStale /\ [][Next]_vars

\* ============================================================= SpecDecode
\* Restores and content updates, one request at a time, with a file that a
\* failed restore write has cut short: its bytes may end inside a UTF-8
\* sequence, and the next read of it raises UnicodeDecodeError.
DecodeRequests ==
    UpdateRequests \cup {UpdateRequest(Content("B"), "None", 1, "decode_error")}

NextDecode ==
    \/ \E t \in ToolIds, r \in DecodeRequests :
          ApiUpdateTool(t, "n2", r.html_content, r.tool_type, r.version, r.io)
    \/ \E t \in ToolIds, r \in RestoreRequests(tool_snapshot) :
          ApiRestoreSnapshot(t, r[1], r[2])

SpecDecode == Init /\ [][NextDecode]_vars

\* =============================================================== SpecConc
\* Each request runs in its own Session on its own SQLite connection
\* (core/db.py get_session). pysqlite opens a transaction before the first
\* INSERT / UPDATE / DELETE of a Session, not before a SELECT: a SELECT reads
\* what is committed and holds no lock afterwards, and with_for_update()
\* adds nothing to a SELECT on SQLite. A write takes the database's write
\* lock and keeps it until the commit; a second writer waits for it, or gives
\* up with OperationalError (database is locked).

\* number of calls one request thread makes in a behaviour
MaxCalls == 2

\* the calls a thread starts: create_snapshot(tool_id, "B", manual, "s1") and
\* update_tool(tool_id, Tool(name = "n2"), expected_version = v)
ConcTools == {1}
ConcVersions == {1, 2}

Set(p, fields) == [proc EXCEPT ![p] = fields]

CanWrite(p) == db_lock \in {NoProc, p}

\* the thread starts a call of SnapshotRepository.create_snapshot
BeginCreateSnapshot(p, tool_id) ==
    /\ proc[p].pc \in {"idle", "done"}
    /\ proc[p].calls < MaxCalls
    /\ proc' = Set(p, [Idle EXCEPT !.pc = "count", !.op = "create_snapshot",
                                   !.tool_id = tool_id,
                                   !.calls = proc[p].calls + 1])
    /\ UNCHANGED <<tool, tool_snapshot, files, now, last, db_lock, apart>>

\* count = select(func.count()).where(tool_id).with_for_update()
ReadCount(p) ==
    /\ proc[p].pc = "count"
    /\ LET count == count_snapshots(tool_snapshot, proc[p].tool_id)
       IN  proc' = Set(p, [proc[p] EXCEPT
                    !.count = count,
                    !.pc = IF count > MAX_SNAPSHOTS_PER_TOOL - 1
                           THEN "select_old" ELSE "insert"])
    /\ UNCHANGED <<tool, tool_snapshot, files, now, last, db_lock, apart>>

\* old_snapshot_ids = select(id).order_by(created_at.asc()).limit(to_delete)
SelectOld(p) ==
    /\ proc[p].pc = "select_old"
    /\ \E D \in OldestIds(tool_snapshot, proc[p].tool_id,
                          proc[p].count - (MAX_SNAPSHOTS_PER_TOOL - 1)) :
          proc' = Set(p, [proc[p] EXCEPT !.old = {d.id : d \in D},
                                         !.pc = "delete_old"])
    /\ UNCHANGED <<tool, tool_snapshot, files, now, last, db_lock, apart>>

\* delete(ToolSnapshot).where(id.in_(old_ids)): the first write of the Session
DeleteOld(p) ==
    /\ proc[p].pc = "delete_old"
    /\ CanWrite(p)
    /\ db_lock' = p
    /\ proc' = Set(p, [proc[p] EXCEPT !.deleted = proc[p].old, !.pc = "insert"])
    /\ UNCHANGED <<tool, tool_snapshot, files, now, last, apart>>

\* snapshot = ToolSnapshot(..., created_at = now); add; commit: the deletes
\* and the insert become visible together and the lock is released
InsertCommit(p) ==
    /\ proc[p].pc = "insert"
    /\ CanWrite(p)
    /\ LET kept == {s \in tool_snapshot : s.id \notin proc[p].deleted}
       IN  tool_snapshot' = kept \cup
               {NewSnapshot(kept, proc[p].tool_id, Content("B"), "manual", "s1", now)}
    /\ now' = now + 1
    /\ db_lock' = NoProc
    /\ proc' = Set(p, [proc[p] EXCEPT !.pc = "done", !.result = "ok"])
    /\ UNCHANGED <<tool, files, last, apart>>

\* the thread starts a call of ToolRepository.update_tool
BeginUpdateTool(p, tool_id, expected_version) ==
    /\ proc[p].pc \in {"idle", "done"}
    /\ proc[p].calls < MaxCalls
    /\ proc' = Set(p, [Idle EXCEPT !.pc = "load", !.op = "update_tool",
                                   !.tool_id = tool_id,
                                   !.expected_version = expected_version,
                                   !.calls = proc[p].calls + 1])
    /\ UNCHANGED <<tool, tool_snapshot, files, now, last, db_lock, apart>>

\* tool = self.session.get(Tool, tool_id); if not tool: return None
Load(p) ==
    /\ proc[p].pc = "load"
    /\ IF get_tool(tool, proc[p].tool_id) = {}
       THEN proc' = Set(p, [proc[p] EXCEPT !.pc = "done", !.result = "None"])
       ELSE \E r \in get_tool(tool, proc[p].tool_id) :
               proc' = Set(p, [proc[p] EXCEPT !.row = r, !.pc = "check"])
    /\ UNCHANGED <<tool, tool_snapshot, files, now, last, db_lock, apart>>

\* if tool.version != expected_version: raise OptimisticLockError
Check(p) ==
    /\ proc[p].pc = "check"
    /\ proc' = Set(p, IF version_conflict(proc[p].row, proc[p].expected_version)
                      THEN [proc[p] EXCEPT !.pc = "done",
                                           !.result = "OptimisticLockError"]
                      ELSE [proc[p] EXCEPT !.pc = "increment"])
    /\ UNCHANGED <<tool, tool_snapshot, files, now, last, db_lock, apart>>

\* setattr(...); tool.updated_at = now; tool.version += 1, on the loaded object
Increment(p) ==
    /\ proc[p].pc = "increment"
    /\ proc' = Set(p, [proc[p] EXCEPT !.row = update_row(proc[p].row, "n2", now),
                                      !.pc = "commit"])
    /\ now' = now + 1
    /\ UNCHANGED <<tool, tool_snapshot, files, last, db_lock, apart>>

\* session.add(tool); session.commit(): UPDATE tool SET name, updated_at,
\* version WHERE id = ?; COMMIT
CommitTool(p) ==
    /\ proc[p].pc = "commit"
    /\ CanWrite(p)
    /\ tool' = {IF r.id = proc[p].row.id
                THEN [r EXCEPT !.name = proc[p].row.name,
                               !.updated_at = proc[p].row.updated_at,
                               !.version = proc[p].row.version]
                ELSE r : r \in tool}
    /\ db_lock' = NoProc
    /\ proc' = Set(p, [proc[p] EXCEPT !.pc = "done", !.result = "ok"])
    /\ UNCHANGED <<tool_snapshot, files, now, last, apart>>

\* a write that waited for the lock longer than the busy timeout:
\* OperationalError, and the Session is rolled back
Busy(p) ==
    /\ proc[p].pc \in {"delete_old", "insert", "commit"}
    /\ ~CanWrite(p)
    /\ proc' = Set(p, [proc[p] EXCEPT !.pc = "done", !.result = "OperationalError"])
    /\ UNCHANGED <<tool, tool_snapshot, files, now, last, db_lock, apart>>

NextConc ==
    \/ \E p \in Procs, t \in ConcTools : BeginCreateSnapshot(p, t)
    \/ \E p \in Procs : ReadCount(p)
    \/ \E p \in Procs : SelectOld(p)
    \/ \E p \in Procs : DeleteOld(p)
    \/ \E p \in Procs : InsertCommit(p)
    \/ \E p \in Procs, t \in ConcTools, v \in ConcVersions : BeginUpdateTool(p, t, v)
    \/ \E p \in Procs : Load(p)
    \/ \E p \in Procs : Check(p)
    \/ \E p \in Procs : Increment(p)
    \/ \E p \in Procs : CommitTool(p)
    \/ \E p \in Procs : Busy(p)

SpecConc == Init /\ [][NextConc]_vars

\* =============================================================== SpecLife
\* Tools and snapshots are created, read, updated field by field and
\* deleted, every call running to completion before the next one starts.

\* the ids a tool can get here: one per clock reading, after the seed's
LifeToolIds == 1..(MaxClock + 1)

\* SnapshotRepository.get_snapshot called directly
RepoGetSnapshot(tool_id, snapshot_id) ==
    /\ last' = Response("repo.get_snapshot", "ok",
                        IF get_snapshot(tool_snapshot, tool_id, snapshot_id) = {}
                        THEN "None" ELSE "ToolSnapshot")
    /\ UNCHANGED <<tool, tool_snapshot, files, now, conc>>

\* SnapshotRepository.delete_snapshot called directly:
\* snapshot = get_snapshot(...); if not snapshot: return None; delete; commit
RepoDeleteSnapshot(tool_id, snapshot_id) ==
    LET snapshot == get_snapshot(tool_snapshot, tool_id, snapshot_id)
    IN  /\ last' = Response("repo.delete_snapshot", "ok",
                            IF snapshot = {} THEN "None" ELSE "ToolSnapshot")
        /\ tool_snapshot' = tool_snapshot \ snapshot
        /\ UNCHANGED <<tool, files, now, conc>>

\* delete_all_by_tool deleting nothing
delete_all_by_tool_Nothing(table, tool_id) == table

\* delete(ToolSnapshot).where(tool_id == tool_id); commit
delete_all_by_tool(table, tool_id) == table \ SnapshotsOf(table, tool_id)

\* what the removal of the tool's directory does
RmOutcomes == {"ok", "rm_error"}

\* delete_tool after its commit: shutil.rmtree(tool_dir) when the directory
\* is inside tools_dir and exists; an OSError is passed over
rmtree(fs, filepath, io) ==
    IF ~is_path_within_base(filepath) \/ fs[filepath] = NoFile \/ io = "rm_error"
    THEN fs
    ELSE [fs EXCEPT ![filepath] = NoFile]

\* DELETE /tools/{tool_id}: delete_all_by_tool, then ToolRepository.delete_tool
ApiDeleteTool(tool_id, io) ==
    /\ UNCHANGED <<now, proc, db_lock, config, fsys, bkp>>
    /\ IF get_tool(tool, tool_id) = {}
       THEN /\ last' = Response("api.delete_tool", "404", "tool")
            /\ UNCHANGED <<tool, tool_snapshot, files, deleted_ids>>
       ELSE LET row == CHOOSE r \in get_tool(tool, tool_id) : TRUE
            IN  /\ last' = Response("api.delete_tool", "204", "")
                /\ tool_snapshot' = delete_all_by_tool(tool_snapshot, tool_id)
                /\ tool' = tool \ {row}
                /\ files' = rmtree(files, row.filepath, io)
                /\ deleted_ids' = deleted_ids \cup {tool_id}

\* ToolRepository.update_tool called with a Tool object that sets the name
\* and the filepath: setattr copies every field the object sets
RepoUpdateToolPath(tool_id, name, filepath, expected_version) ==
    /\ now < MaxClock
    /\ UNCHANGED conc
    /\ IF get_tool(tool, tool_id) = {}
       THEN /\ last' = Response("repo.update_tool", "ok", "None")
            /\ UNCHANGED <<tool, tool_snapshot, files, now>>
       ELSE LET row == CHOOSE r \in get_tool(tool, tool_id) : TRUE
            IN  IF version_conflict(row, expected_version)
                THEN /\ last' = [Response("repo.update_tool", "OptimisticLockError", "")
                                    EXCEPT !.expected_version = expected_version,
                                           !.current_version = row.version]
                     /\ UNCHANGED <<tool, tool_snapshot, files, now>>
                ELSE /\ tool' = (tool \ {row}) \cup
                            {[update_row(row, name, now) EXCEPT !.filepath = filepath]}
                     /\ now' = now + 1
                     /\ last' = Response("repo.update_tool", "ok", "Tool")
                     /\ UNCHANGED <<tool_snapshot, files>>

\* the ids of the snapshots stored
StoredIds(table) == {s.id : s \in table}

NextLife ==
    \/ ApiCreateTool("n1", Content("A"), "html")
    \/ \E t \in LifeToolIds : RepoCreateSnapshot(t, Content("B"), "manual", "s1")
    \/ \E t \in LifeToolIds, sid \in StoredIds(tool_snapshot) : RepoGetSnapshot(t, sid)
    \/ \E t \in LifeToolIds, sid \in StoredIds(tool_snapshot) : RepoDeleteSnapshot(t, sid)
    \/ \E t \in LifeToolIds, io \in RmOutcomes : ApiDeleteTool(t, io)
    \/ \E t \in LifeToolIds, p \in InsidePaths :
          RepoUpdateToolPath(t, "n2", p, 1)

SpecLife == Init /\ [][NextLife]_vars

\* =============================================================== SpecPath
\* The program was restarted with APP_TOOLS_DIR naming another directory
\* after the seed tool was created under the default one: its file is now
\* outside the configured tools directory. Content updates, manual
\* snapshots and restores are requested, one after another.
InitPath ==
    /\ tool = {SeedTool}
    /\ tool_snapshot = SeedSnapshots(SeedCount)
    /\ files = [p \in Paths |-> IF p \in {OutsidePath, 1} THEN Content("A") ELSE NoFile]
    /\ now = 0
    /\ last = Response("init", "ok", "")
    /\ proc = [p \in Procs |-> Idle]
    /\ db_lock = NoProc
    /\ deleted_ids = {}
    /\ tools_dir = OtherToolsDir
    /\ temp_files = [p \in Paths |-> NoFile]
    /\ writer = IdleWriter
    /\ seen = NoFile
    /\ backups = {}

NextPath ==
    \/ \E t \in ToolIds, c \in SnapshotInputs :
          RepoCreateSnapshot(t, c[1], c[2], c[3])
    \/ \E t \in ToolIds, r \in UpdateRequests :
          ApiUpdateTool(t, "n2", r.html_content, r.tool_type, r.version, r.io)
    \/ \E t \in ToolIds, r \in RestoreRequests(tool_snapshot) :
          ApiRestoreSnapshot(t, r[1], r[2])

SpecPath == InitPath /\ [][NextPath]_vars

\* =============================================================== SpecFile
\* One file write at a time, taken system call by system call, with a
\* reader that opens and reads a tool file between any two of them (a diff,
\* a fork, the static file server). A write is atomic_write_file (content
\* update, tool creation) or open(filepath, "w") followed by f.write
\* (restore_snapshot). Each system call either succeeds or raises OSError.

\* what the tables, the clock and the settings are to a file write
db == <<tool, tool_snapshot, now, last, proc, db_lock, life, config, bkp>>

\* the files written and the contents they are written with
WritePaths == InsidePaths
WriteContents == {Content("A"), Content("B")}

Writing(kind, pcs) == writer.kind = kind /\ writer.pc \in pcs

\* atomic_write_file(filepath, content) is called, for a directory that
\* holds no temporary file of an earlier call
BeginAtomicWrite(filepath, content) ==
    /\ writer.pc \in {"idle", "done"}
    /\ temp_files[filepath] = NoFile
    /\ writer' = [IdleWriter EXCEPT !.pc = "mkstemp", !.kind = "atomic",
                                    !.filepath = filepath, !.content = content,
                                    !.old = files[filepath]]
    /\ UNCHANGED <<files, temp_files, seen, db>>

\* temp_fd, temp_path = tempfile.mkstemp(dir = dir_path): outside the try
Mkstemp(fails) ==
    /\ Writing("atomic", {"mkstemp"})
    /\ IF fails
       THEN /\ writer' = [writer EXCEPT !.pc = "done", !.result = "raised",
                                       !.failed = "mkstemp"]
            /\ UNCHANGED temp_files
       ELSE /\ temp_files' = [temp_files EXCEPT ![writer.filepath] = Truncated]
            /\ writer' = [writer EXCEPT !.pc = "write"]
    /\ UNCHANGED <<files, seen, db>>

\* with os.fdopen(temp_fd, "w") as f: f.write(content)
WriteTemp(fails) ==
    /\ Writing("atomic", {"write"})
    /\ IF fails
       THEN /\ writer' = [writer EXCEPT !.pc = "unlink", !.failed = "write"]
            /\ UNCHANGED temp_files
       ELSE /\ temp_files' = [temp_files EXCEPT ![writer.filepath] = writer.content]
            /\ writer' = [writer EXCEPT !.pc = "chmod"]
    /\ UNCHANGED <<files, seen, db>>

\* os.chmod(temp_path, mode)
Chmod(fails) ==
    /\ Writing("atomic", {"chmod"})
    /\ writer' = IF fails
                  THEN [writer EXCEPT !.pc = "unlink", !.failed = "chmod"]
                  ELSE [writer EXCEPT !.pc = "replace"]
    /\ UNCHANGED <<files, temp_files, seen, db>>

\* os.replace(temp_path, filepath): the target is the temporary file from
\* now on, in one step
Replace(fails) ==
    /\ Writing("atomic", {"replace"})
    /\ IF fails
       THEN /\ writer' = [writer EXCEPT !.pc = "unlink", !.failed = "replace"]
            /\ UNCHANGED <<files, temp_files>>
       ELSE /\ files' = [files EXCEPT ![writer.filepath] = temp_files[writer.filepath]]
            /\ temp_files' = [temp_files EXCEPT ![writer.filepath] = NoFile]
            /\ writer' = [writer EXCEPT !.pc = "done", !.result = "returned"]
    /\ UNCHANGED <<seen, db>>

\* unlink_temp leaving the temporary file where it is
unlink_temp_Keep(temps, filepath, fails) == temps

\* os.unlink(temp_path), an OSError of which is passed over
unlink_temp(temps, filepath, fails) ==
    IF fails THEN temps ELSE [temps EXCEPT ![filepath] = NoFile]

\* except BaseException: try: os.unlink(temp_path) except OSError: pass; raise
Unlink(fails) ==
    /\ Writing("atomic", {"unlink"})
    /\ temp_files' = unlink_temp(temp_files, writer.filepath, fails)
    /\ writer' = [writer EXCEPT !.pc = "done", !.result = "raised",
                                !.unlink_failed = fails]
    /\ UNCHANGED <<files, seen, db>>

\* restore_snapshot reaches its write of an existing file
BeginOpenWrite(filepath, content) ==
    /\ writer.pc \in {"idle", "done"}
    /\ files[filepath] # NoFile
    /\ writer' = [IdleWriter EXCEPT !.pc = "open", !.kind = "open",
                                    !.filepath = filepath, !.content = content,
                                    !.old = files[filepath]]
    /\ UNCHANGED <<files, temp_files, seen, db>>

\* open(filepath, "w", encoding = "utf-8"): the file is truncated
OpenTruncate(fails) ==
    /\ Writing("open", {"open"})
    /\ IF fails
       THEN /\ writer' = [writer EXCEPT !.pc = "done", !.result = "raised",
                                       !.failed = "open"]
            /\ UNCHANGED files
       ELSE /\ files' = [files EXCEPT ![writer.filepath] = Truncated]
            /\ writer' = [writer EXCEPT !.pc = "fwrite"]
    /\ UNCHANGED <<temp_files, seen, db>>

\* f.write(content_to_write) and the close at the end of the with block
FWrite(fails) ==
    /\ Writing("open", {"fwrite"})
    /\ IF fails
       THEN /\ writer' = [writer EXCEPT !.pc = "done", !.result = "raised",
                                       !.failed = "write"]
            /\ UNCHANGED files
       ELSE /\ files' = [files EXCEPT ![writer.filepath] = writer.content]
            /\ writer' = [writer EXCEPT !.pc = "done", !.result = "returned"]
    /\ UNCHANGED <<temp_files, seen, db>>

\* with open(filepath, encoding = "utf-8") as f: f.read(), by another request
ReadFile(filepath) ==
    /\ files[filepath] # NoFile
    /\ seen' = files[filepath]
    /\ UNCHANGED <<files, temp_files, writer, db>>

NextFile ==
    \/ \E p \in WritePaths, c \in WriteContents : BeginAtomicWrite(p, c)
    \/ \E fails \in BOOLEAN : Mkstemp(fails)
    \/ \E fails \in BOOLEAN : WriteTemp(fails)
    \/ \E fails \in BOOLEAN : Chmod(fails)
    \/ \E fails \in BOOLEAN : Replace(fails)
    \/ \E fails \in BOOLEAN : Unlink(fails)
    \/ \E p \in WritePaths, c \in WriteContents : BeginOpenWrite(p, c)
    \/ \E fails \in BOOLEAN : OpenTruncate(fails)
    \/ \E fails \in BOOLEAN : FWrite(fails)
    \/ \E p \in WritePaths : ReadFile(p)

SpecFile == Init /\ [][NextFile]_vars

\* ============================================================= SpecBackup
\* BackupService: create_backup and delete_backup are called one after
\* another while the clock advances. A backup file is named by the second
\* it is made in, so a second call in the same second writes the same file;
\* its st_mtime, which list_backups sorts by, is later the later the second.

\* what a call of BackupService leaves alone
service == <<tool, tool_snapshot, files, proc, db_lock, life, config, fsys>>

\* rotate removing the newest backups
rotate_Newest(stored, stuck) ==
    LET doomed == {b \in stored :
                     Cardinality({x \in stored : x < b}) >= max_generations}
    IN  stored \ (doomed \ stuck)

\* _rotate_backups: backups[max_generations:] of the list sorted newest
\* first are unlinked; an OSError of unlink is logged and passed over, which
\* happens for the files in stuck
rotate(stored, stuck) ==
    LET doomed == {b \in stored :
                     Cardinality({x \in stored : x > b}) >= max_generations}
    IN  stored \ (doomed \ stuck)

\* what the copy of the database does
BackupOutcomes == {"ok", "sqlite3.Error", "integrity"}

\* BackupService.create_backup
CreateBackup(outcome, stuck) ==
    /\ UNCHANGED service
    /\ UNCHANGED now
    /\ IF outcome = "sqlite3.Error"
       THEN \* src.backup(dst) raises: the file made by connect stays
            /\ backups' = backups \cup {now}
            /\ last' = Response("backup.create_backup", "BackupError", "sqlite3.Error")
       ELSE IF outcome = "integrity"
       THEN \* PRAGMA integrity_check is not ok: backup_path.unlink()
            /\ backups' = backups \ {now}
            /\ last' = Response("backup.create_backup", "BackupError", "integrity")
       ELSE /\ backups' = rotate(backups \cup {now}, stuck)
            /\ last' = Response("backup.create_backup", "ok", "BackupInfo")

\* BackupService.delete_backup(filename)
DeleteBackup(stamp, fails) ==
    /\ UNCHANGED service
    /\ UNCHANGED now
    /\ IF stamp \notin backups
       THEN /\ last' = Response("backup.delete_backup", "BackupNotFoundError", "")
            /\ UNCHANGED backups
       ELSE IF fails
       THEN /\ last' = Response("backup.delete_backup", "BackupError", "OSError")
            /\ UNCHANGED backups
       ELSE /\ last' = Response("backup.delete_backup", "ok", "True")
            /\ backups' = backups \ {stamp}

\* a second passes
NextSecond ==
    /\ now < MaxBackupClock
    /\ now' = now + 1
    /\ UNCHANGED <<last, backups, service>>

NextBackup ==
    \/ \E outcome \in BackupOutcomes, stuck \in SUBSET backups :
          CreateBackup(outcome, stuck)
    \/ \E stamp \in 0..MaxBackupClock, fails \in BOOLEAN : DeleteBackup(stamp, fails)
    \/ NextSecond

SpecBackup == Init /\ [][NextBackup]_vars

\* =============================================================== SpecRace
\* Two requests for the same tool run their handlers step by step, each in
\* its own Session: DELETE /tools/{id}, POST /tools/{id}/snapshots/,
\* PUT /tools/{id} with html_content, and POST .../{snapshot_id}/restore.
\* A step is one database round trip (a SELECT, or a write with its commit)
\* or one file operation; nothing in a handler holds a lock across steps.
RaceTools == {1}
RaceOps == {"delete_tool", "create_snapshot", "update_tool", "restore_snapshot"}
\* the content a PUT carries and the snapshot a restore asks for
RaceContent == Content("B")
RaceSnapshotId == 1

\* the request thread starts handling a request
BeginRequest(p, op, tool_id) ==
    /\ proc[p].pc \in {"idle", "done"}
    /\ proc[p].calls < MaxCalls
    /\ proc' = Set(p, [Idle EXCEPT
                 !.pc = "get", !.op = op, !.tool_id = tool_id,
                 !.calls = proc[p].calls + 1,
                 !.content = IF op = "update_tool" THEN RaceContent ELSE NoFile,
                 !.snapshot_id = IF op = "restore_snapshot"
                                 THEN RaceSnapshotId ELSE 0])
    /\ UNCHANGED <<tool, tool_snapshot, files, now, last, db_lock, apart>>

\* tool = repo.get_tool(tool_id); if not tool: raise HTTPException(404)
GetTool(p) ==
    /\ proc[p].pc = "get"
    /\ IF get_tool(tool, proc[p].tool_id) = {}
       THEN proc' = Set(p, [proc[p] EXCEPT !.pc = "done", !.result = "404"])
       ELSE \E r \in get_tool(tool, proc[p].tool_id) :
               proc' = Set(p, [proc[p] EXCEPT
                   !.row = r,
                   !.pc = CASE proc[p].op = "delete_tool" -> "delete_snapshots"
                            [] proc[p].op = "restore_snapshot" -> "get_snapshot"
                            [] OTHER -> "read"])
    /\ UNCHANGED <<tool, tool_snapshot, files, now, last, db_lock, apart>>

\* restore_snapshot: snapshot = snapshot_repo.get_snapshot(tool_id,
\* snapshot_id); if not snapshot: raise HTTPException(404)
GetSnapshot(p) ==
    /\ proc[p].pc = "get_snapshot"
    /\ LET found == get_snapshot(tool_snapshot, proc[p].tool_id, proc[p].snapshot_id)
       IN  IF found = {}
           THEN proc' = Set(p, [proc[p] EXCEPT !.pc = "done", !.result = "404"])
           ELSE \E s \in found :
                   proc' = Set(p, [proc[p] EXCEPT
                       !.content = ContentToWrite(proc[p].row, s),
                       !.pc = "read"])
    /\ UNCHANGED <<tool, tool_snapshot, files, now, last, db_lock, apart>>

\* the handler reads the tool's file: update_tool passes over a missing
\* file and snapshots only a content that differs; the two snapshot
\* handlers answer 404 for a missing file
ReadCurrent(p) ==
    /\ proc[p].pc = "read"
    /\ LET current_content == files[proc[p].row.filepath]
           next ==
             IF proc[p].op = "update_tool"
             THEN IF current_content # NoFile /\ current_content # proc[p].content
                  THEN "snapshot" ELSE "write"
             ELSE IF current_content = NoFile THEN "done"
             ELSE IF proc[p].op = "create_snapshot" THEN "snapshot" ELSE "write"
       IN  proc' = Set(p, [proc[p] EXCEPT
                    !.current = current_content,
                    !.pc = next,
                    !.result = IF next = "done" THEN "404" ELSE ""])
    /\ UNCHANGED <<tool, tool_snapshot, files, now, last, db_lock, apart>>

\* snapshot_repo.create_snapshot(tool_id, current_content, ...) with its
\* commit; its ValueError ends a manual snapshot request with 413 and is
\* passed over by update_tool and restore_snapshot
TakeSnapshot(p) ==
    /\ proc[p].pc = "snapshot"
    /\ LET op == proc[p].op
           refused == TooLarge(proc[p].current)
           after == IF op = "update_tool" THEN "write" ELSE "done"
           result == IF op = "update_tool" THEN ""
                     ELSE IF op = "restore_snapshot" THEN "200"
                     ELSE IF refused THEN "413" ELSE "201"
       IN  /\ proc' = Set(p, [proc[p] EXCEPT !.pc = after, !.result = result])
           /\ IF refused
              THEN UNCHANGED <<tool_snapshot, now>>
              ELSE /\ tool_snapshot' \in
                        create_snapshot(tool_snapshot, proc[p].tool_id, proc[p].current,
                            IF op = "create_snapshot" THEN "manual" ELSE "auto",
                            CASE op = "create_snapshot" -> "s1"
                              [] op = "restore_snapshot" -> RestoreName
                              [] OTHER -> NoName,
                            now)
                   /\ now' = now + 1
    /\ UNCHANGED <<tool, files, last, db_lock, apart>>

\* update_tool: atomic_write_file(filepath, final_html), then the TypeError
\* of repo.update_tool; restore_snapshot: open(filepath, "w") and write,
\* then the backup snapshot. The tool's directory is gone when
\* delete_tool has removed it, and the write raises OSError.
WriteFile(p) ==
    /\ proc[p].pc = "write"
    /\ LET filepath == proc[p].row.filepath
       IN  IF files[filepath] = NoFile
           THEN /\ proc' = Set(p, [proc[p] EXCEPT !.pc = "done", !.result = "500"])
                /\ UNCHANGED files
           ELSE IF proc[p].op = "update_tool"
           THEN /\ files' \in atomic_write_file(files, filepath, proc[p].content, "ok")
                /\ proc' = Set(p, [proc[p] EXCEPT !.pc = "done", !.result = "500"])
           ELSE /\ files' \in open_write(files, filepath, proc[p].content, "ok")
                /\ proc' = Set(p, [proc[p] EXCEPT !.pc = "snapshot"])
    /\ UNCHANGED <<tool, tool_snapshot, now, last, db_lock, apart>>

\* delete_tool: snapshot_repo.delete_all_by_tool(tool_id), with its commit
DeleteSnapshots(p) ==
    /\ proc[p].pc = "delete_snapshots"
    /\ tool_snapshot' = delete_all_by_tool(tool_snapshot, proc[p].tool_id)
    /\ proc' = Set(p, [proc[p] EXCEPT !.pc = "delete_row"])
    /\ UNCHANGED <<tool, files, now, last, db_lock, apart>>

\* session.delete(tool) that leaves the row
delete_row_Keep(table, tool_id) == table

\* session.delete(tool); session.commit()
delete_row(table, tool_id) == table \ get_tool(table, tool_id)

\* ToolRepository.delete_tool up to its commit: tool = session.get(Tool,
\* tool_id); if not tool: return None; filepath = tool.filepath; delete
DeleteRow(p) ==
    /\ proc[p].pc = "delete_row"
    /\ IF get_tool(tool, proc[p].tool_id) = {}
       THEN /\ proc' = Set(p, [proc[p] EXCEPT !.pc = "done", !.result = "204"])
            /\ UNCHANGED tool
       ELSE \E r \in get_tool(tool, proc[p].tool_id) :
               /\ tool' = delete_row(tool, proc[p].tool_id)
               /\ proc' = Set(p, [proc[p] EXCEPT !.row = r, !.pc = "rmtree"])
    /\ UNCHANGED <<tool_snapshot, files, now, last, db_lock, apart>>

\* ToolRepository.delete_tool after its commit: shutil.rmtree(tool_dir)
DeleteFile(p, io) ==
    /\ proc[p].pc = "rmtree"
    /\ files' = rmtree(files, proc[p].row.filepath, io)
    /\ proc' = Set(p, [proc[p] EXCEPT !.pc = "done", !.result = "204"])
    /\ UNCHANGED <<tool, tool_snapshot, now, last, db_lock, apart>>

NextRace ==
    \/ \E p \in Procs, op \in RaceOps, t \in RaceTools : BeginRequest(p, op, t)
    \/ \E p \in Procs : GetTool(p)
    \/ \E p \in Procs : GetSnapshot(p)
    \/ \E p \in Procs : ReadCurrent(p)
    \/ \E p \in Procs : TakeSnapshot(p)
    \/ \E p \in Procs : WriteFile(p)
    \/ \E p \in Procs : DeleteSnapshots(p)
    \/ \E p \in Procs : DeleteRow(p)
    \/ \E p \in Procs, io \in RmOutcomes : DeleteFile(p, io)

SpecRace == Init /\ [][NextRace]_vars

\* ================================================================ SpecTie
\* SnapshotRepository.create_snapshot called several times within one
\* reading of the clock: datetime.now(timezone.utc) returns the same value
\* to calls made within the clock's resolution, so several snapshots can
\* carry the same created_at.

\* the largest snapshot id given out in a behaviour
MaxSnapshotId == 6

\* create_snapshot called at a time the clock has not moved since
CreateSnapshotSameInstant(tool_id, html_content, snapshot_type, name) ==
    /\ NextId(tool_snapshot) <= MaxSnapshotId
    /\ IF TooLarge(html_content)
       THEN /\ last' = Response("repo.create_snapshot", "ValueError", "")
            /\ UNCHANGED tool_snapshot
       ELSE /\ tool_snapshot' \in create_snapshot(tool_snapshot, tool_id,
                                    html_content, snapshot_type, name, now)
            /\ last' = Response("repo.create_snapshot", "ok", "ToolSnapshot")
    /\ UNCHANGED <<tool, files, now, conc>>

\* the clock moves on
ClockTick ==
    /\ now < MaxClock
    /\ now' = now + 1
    /\ UNCHANGED <<tool, tool_snapshot, files, last, conc>>

NextTie ==
    \/ \E t \in ToolIds, c \in SnapshotInputs :
          CreateSnapshotSameInstant(t, c[1], c[2], c[3])
    \/ ClockTick

SpecTie == Init /\ [][NextTie]_vars

\* =================================================================== claims
ToolRow(tool_id) == CHOOSE r \in get_tool(tool, tool_id) : TRUE
StoredVersion(tool_id) == ToolRow(tool_id).version

\* C1: after any sequence of snapshot-creating calls (create_snapshot called
\* directly, a manual snapshot request, a content update, a restore), every
\* tool has at most MAX_SNAPSHOTS_PER_TOOL snapshots.
C1_RetentionBound ==
    \A t \in ToolIds : count_snapshots(tool_snapshot, t) <= MAX_SNAPSHOTS_PER_TOOL

\* a restore has just evicted the oldest snapshot of a tool that is at the limit
C1_Witness ==
    /\ last = Response("api.restore_snapshot", "200", "ToolRead")
    /\ \E t \in ToolIds :
          /\ count_snapshots(tool_snapshot, t) = MAX_SNAPSHOTS_PER_TOOL
          /\ \A s \in SnapshotsOf(tool_snapshot, t) : s.id > 1
          /\ \E s \in SnapshotsOf(tool_snapshot, t) :
                s.name = RestoreName /\ s.created_at = now - 1

\* C2: when two create_snapshot calls for the same tool run concurrently,
\* whatever the order of their count, eviction and insert steps, the tool
\* has at most MAX_SNAPSHOTS_PER_TOOL snapshots once the calls have ended.
C2_ConcurrentRetentionBound ==
    (\A p \in Procs : proc[p].pc \in {"idle", "done"})
        => \A t \in ConcTools :
              count_snapshots(tool_snapshot, t) <= MAX_SNAPSHOTS_PER_TOOL

IsUpdate(t, r) ==
    /\ last'.op = "api.update_tool"
    /\ ApiUpdateTool(t, "n2", r.html_content, r.tool_type, r.version, r.io)

\* C6: a PUT /tools/{id} whose version is older than the stored version is
\* answered 409 with the current and the caller's version, and the tool row
\* is not changed.
C6_StalePutIs409 ==
    [][\A t \in ToolIds, r \in UpdateRequests :
          (IsUpdate(t, r) /\ r.io = "ok" /\ get_tool(tool, t) # {}
           /\ is_path_within_base(ToolRow(t).filepath)
           /\ r.version # NoVersion /\ r.version < StoredVersion(t))
            => /\ last'.status = "409"
               /\ last'.current_version = StoredVersion(t)
               /\ last'.expected_version = r.version
               /\ tool' = tool]_vars

\* C7: a PUT /tools/{id} without a version is answered 422 before anything
\* is changed: no file write, no snapshot, no change of the tool row.
C7_PutWithoutVersionIs422 ==
    [][\A t \in ToolIds, r \in UpdateRequests :
          (IsUpdate(t, r) /\ r.version = NoVersion /\ get_tool(tool, t) # {})
            => /\ last'.status = "422"
               /\ UNCHANGED <<tool, tool_snapshot, files>>]_vars

\* the rows a step added to tool_snapshot are one AUTO snapshot of this
\* tool holding this content
OneAutoSnapshotAdded(tool_id, content) ==
    LET added == tool_snapshot' \ tool_snapshot
    IN  /\ Cardinality(added) = 1
        /\ \A s \in added : /\ s.tool_id = tool_id
                            /\ s.snapshot_type = "auto"
                            /\ s.html_content = content

\* a content update that got as far as reading the tool's existing file
ContentUpdateReads(t, r) ==
    /\ r.html_content # NoContent /\ r.io \notin {"read_error", "decode_error"}
    /\ get_tool(tool, t) # {}
    /\ is_path_within_base(ToolRow(t).filepath)
    /\ files[ToolRow(t).filepath] # NoFile
    /\ IsUpdate(t, r)

\* C8 as stated: a content update of a tool whose file exists adds exactly
\* one AUTO snapshot holding the previous file content when the content to
\* be written differs from it, and no snapshot when it is identical.
C8_AutoSnapshotIffDiffers ==
    [][\A t \in ToolIds, r \in UpdateRequests :
          ContentUpdateReads(t, r)
            => IF FinalHtml(r.html_content, r.tool_type) # files[ToolRow(t).filepath]
               THEN OneAutoSnapshotAdded(t, files[ToolRow(t).filepath])
               ELSE tool_snapshot' = tool_snapshot]_vars

\* C8 amended: the same, for a previous file content that is not larger
\* than MAX_CONTENT_SIZE_BYTES.
C8_AutoSnapshotIffDiffersWithinSize ==
    [][\A t \in ToolIds, r \in UpdateRequests :
          (ContentUpdateReads(t, r)
           /\ ~TooLarge(files[ToolRow(t).filepath]))
            => IF FinalHtml(r.html_content, r.tool_type) # files[ToolRow(t).filepath]
               THEN OneAutoSnapshotAdded(t, files[ToolRow(t).filepath])
               ELSE tool_snapshot' = tool_snapshot]_vars

\* a content update has just replaced the file content and saved the
\* previous one as the newest AUTO snapshot of the tool
C8_Witness ==
    /\ last = Response("api.update_tool", "500", "TypeError")
    /\ \E r \in tool, s \in tool_snapshot :
          /\ s.tool_id = r.id
          /\ s.snapshot_type = "auto" /\ s.name = NoName
          /\ s.created_at = now - 1
          /\ s.html_content = Content("A")
          /\ files[r.filepath] = Content("B")

\* a restore of snapshot sid of HTML tool t that is answered 200
RestoreSucceeds(t, sid, io) ==
    /\ last' = Response("api.restore_snapshot", "200", "ToolRead")
    /\ get_tool(tool, t) # {}
    /\ ToolRow(t).tool_type = "html"
    /\ get_snapshot(tool_snapshot, t, sid) # {}
    /\ ApiRestoreSnapshot(t, sid, io)

\* C9 as stated: a successful restore of a snapshot holding A, for an HTML
\* tool whose file holds B, leaves the file holding A and adds exactly one
\* AUTO snapshot, holding B.
C9_RestoreRoundTrip ==
    [][\A t \in ToolIds, r \in RestoreRequests(tool_snapshot) :
          RestoreSucceeds(t, r[1], r[2])
            => /\ \A s \in get_snapshot(tool_snapshot, t, r[1]) :
                      files'[ToolRow(t).filepath] = s.html_content
               /\ OneAutoSnapshotAdded(t, files[ToolRow(t).filepath])]_vars

\* C9 amended: the same, for a file content B that is not larger than
\* MAX_CONTENT_SIZE_BYTES.
C9_RestoreRoundTripWithinSize ==
    [][\A t \in ToolIds, r \in RestoreRequests(tool_snapshot) :
          (RestoreSucceeds(t, r[1], r[2]) /\ ~TooLarge(files[ToolRow(t).filepath]))
            => /\ \A s \in get_snapshot(tool_snapshot, t, r[1]) :
                      files'[ToolRow(t).filepath] = s.html_content
               /\ OneAutoSnapshotAdded(t, files[ToolRow(t).filepath])]_vars

\* after an update from A to B, a restore has put A back and saved B
C9_Witness ==
    /\ last = Response("api.restore_snapshot", "200", "ToolRead")
    /\ \E r \in tool, s \in tool_snapshot :
          /\ r.tool_type = "html" /\ s.tool_id = r.id
          /\ s.snapshot_type = "auto" /\ s.name = RestoreName
          /\ s.created_at = now - 1
          /\ s.html_content = Content("B")
          /\ files[r.filepath] = Content("A")

C11_OwnerChecked ==
    [][\A t \in LifeToolIds, s \in tool_snapshot :
          (s.tool_id # t /\ last'.op \in {"repo.get_snapshot", "repo.delete_snapshot"}
           /\ (RepoGetSnapshot(t, s.id) \/ RepoDeleteSnapshot(t, s.id)))
            => last'.detail = "None" /\ s \in tool_snapshot']_vars

\* delete_snapshot has just returned None for a stored snapshot: every id it
\* is called with here is the id of a stored snapshot
C11_Witness ==
    /\ last = Response("repo.delete_snapshot", "ok", "None")
    /\ tool_snapshot = SeedSnapshots(SeedCount)

C17_DeleteToolCascades ==
    [][\A t \in LifeToolIds, io \in RmOutcomes :
          (last'.op = "api.delete_tool" /\ get_tool(tool, t) # {}
           /\ ApiDeleteTool(t, io))
            => /\ get_tool(tool', t) = {}
               /\ count_snapshots(tool_snapshot', t) = 0]_vars

\* the seed tool and its snapshots have just been deleted
C17_Witness ==
    /\ last = Response("api.delete_tool", "204", "")
    /\ 1 \in deleted_ids
    /\ get_tool(tool, 1) = {}
    /\ count_snapshots(tool_snapshot, 1) = 0

\* C18: the id of a tool that was deleted is not the id of any tool stored
\* afterwards.
C18_IdNeverReused ==
    \A r \in tool : r.id \notin deleted_ids

\* C13: a content update or a restore of a tool whose file is outside the
\* configured tools directory is answered 400 and writes no file, creates
\* no snapshot and changes no tool.
C13_NoWriteOutsideToolsDir ==
    [][\A t \in ToolIds :
          (/\ get_tool(tool, t) # {}
           /\ ~is_path_within_base(ToolRow(t).filepath)
           /\ \/ \E r \in UpdateRequests :
                    r.html_content # NoContent /\ IsUpdate(t, r)
              \/ \E r \in RestoreRequests(tool_snapshot) :
                    /\ last'.op = "api.restore_snapshot"
                    /\ get_snapshot(tool_snapshot, t, r[1]) # {}
                    /\ ApiRestoreSnapshot(t, r[1], r[2]))
            => /\ last'.status = "400"
               /\ UNCHANGED <<files, tool_snapshot, tool>>]_vars

\* the write in progress, if any, is a write of the file at filepath
WriteInProgress(filepath) ==
    writer.pc \notin {"idle", "done"} /\ writer.filepath = filepath

\* C14: a read of a tool file while a content update or a restore is
\* writing that file returns the content the file had before the write or
\* the content being written.
C14_ReaderSeesOldOrNew ==
    [][\A p \in WritePaths :
          (WriteInProgress(p) /\ ReadFile(p))
            => seen' \in {writer.old, writer.content}]_vars

\* an atomic_write_file call has ended
AtomicWriteEnded == writer.kind = "atomic" /\ writer.pc = "done"

C16_TooLargeRejected ==
    [][/\ \A t \in ToolIds, r \in SnapshotRequests :
            (/\ last'.op = "api.create_snapshot"
             /\ get_tool(tool, t) # {}
             /\ r[3] = "ok"
             /\ files[ToolRow(t).filepath] # NoFile
             /\ content_size(files[ToolRow(t).filepath]) > MAX_CONTENT_SIZE_BYTES
             /\ ApiCreateSnapshot(t, r[1], r[2], r[3]))
              => /\ last'.status = "413"
                 /\ UNCHANGED <<tool_snapshot, files, tool>>
       /\ \A t \in ToolIds, c \in SnapshotInputs :
            (/\ last'.op = "repo.create_snapshot"
             /\ content_size(c[1]) > MAX_CONTENT_SIZE_BYTES
             /\ RepoCreateSnapshot(t, c[1], c[2], c[3]))
              => /\ last'.status = "ValueError"
                 /\ UNCHANGED <<tool_snapshot, files, tool>>]_vars

\* a manual snapshot of a file that is too large has just been refused for
\* a tool that is at the limit: nothing was evicted
C16_Witness ==
    /\ last = Response("api.create_snapshot", "413", "")
    /\ \E r \in tool :
          /\ content_size(files[r.filepath]) > MAX_CONTENT_SIZE_BYTES
          /\ count_snapshots(tool_snapshot, r.id) = MAX_SNAPSHOTS_PER_TOOL

\* C20: a content update whose file write fails is answered with an error,
\* leaves the tool row (version, updated_at, name) and the file as they
\* were, and keeps the AUTO snapshot it created before the write; and no
\* content update changes the tool row unless its file write succeeded.
C20_MetadataAfterWrite ==
    [][\A t \in ToolIds, r \in UpdateRequests :
          (/\ get_tool(tool, t) # {}
           /\ r.html_content # NoContent
           /\ is_path_within_base(ToolRow(t).filepath)
           /\ IsUpdate(t, r))
            => LET filepath == ToolRow(t).filepath
                   final_html == FinalHtml(r.html_content, r.tool_type)
               IN  /\ tool' # tool
                        => r.io = "ok" /\ files'[filepath] = final_html
                   /\ r.io = "write_error"
                        => /\ last'.status = "500"
                           /\ tool' = tool
                           /\ files' = files
                           /\ IF /\ files[filepath] # NoFile
                                 /\ files[filepath] # final_html
                                 /\ content_size(files[filepath]) <= MAX_CONTENT_SIZE_BYTES
                              THEN OneAutoSnapshotAdded(t, files[filepath])
                              ELSE tool_snapshot' = tool_snapshot]_vars

\* the write of B failed after the AUTO snapshot of A was stored: the file
\* still holds A and the tool is at version 1
C20_Witness ==
    /\ last = Response("api.update_tool", "500", "OSError")
    /\ \E r \in tool, s \in tool_snapshot :
          /\ s.tool_id = r.id
          /\ s.snapshot_type = "auto" /\ s.name = NoName
          /\ s.created_at = now - 1
          /\ s.html_content = Content("A")
          /\ files[r.filepath] = Content("A")
          /\ r.version = 1

\* the backups a successful create_backup found and made, and those it left
NewestKept(before, after) ==
    /\ Cardinality(after) <= max_generations
    /\ after \subseteq before \cup {now}
    /\ \A kept \in after, gone \in (before \cup {now}) \ after : kept > gone

StaleContentUpdate(t, r) ==
    /\ r.html_content # NoContent /\ r.io = "ok"
    /\ get_tool(tool, t) # {}
    /\ is_path_within_base(ToolRow(t).filepath)
    /\ r.version # NoVersion /\ r.version < StoredVersion(t)
    /\ IsUpdate(t, r)

UnsnapshottableUpdate(t, r) ==
    /\ r.html_content # NoContent /\ r.io = "ok"
    /\ get_tool(tool, t) # {}
    /\ is_path_within_base(ToolRow(t).filepath)
    /\ r.version = StoredVersion(t)
    /\ \/ files[ToolRow(t).filepath] = NoFile
       \/ TooLarge(files[ToolRow(t).filepath])
    /\ IsUpdate(t, r)

\* C22: a content update whose previous content cannot be snapshotted (file
\* absent, or content above MAX_CONTENT_SIZE_BYTES) creates no snapshot,
\* still writes the new content to the file and still applies the metadata
\* update: the row gets the request's name and the next version.
C22_SnapshotFailureNeverBlocks ==
    [][\A t \in ToolIds, r \in UpdateRequests :
          UnsnapshottableUpdate(t, r)
            => /\ tool_snapshot' = tool_snapshot
               /\ files'[ToolRow(t).filepath] = FinalHtml(r.html_content, r.tool_type)
               /\ \E row \in get_tool(tool', t) :
                     /\ row.name = "n2"
                     /\ row.version = StoredVersion(t) + 1]_vars

\* a content update of tool t, whose path is valid, during which the read
\* of the existing file fails with an OSError (io = "read_error") or with
\* a UnicodeDecodeError (io = "decode_error"), or the write fails
\* (io = "write_error")
FailingContentUpdate(t, r, io) ==
    /\ r.html_content # NoContent /\ r.io = io
    /\ get_tool(tool, t) # {}
    /\ is_path_within_base(ToolRow(t).filepath)
    /\ io = "read_error" => files[ToolRow(t).filepath] # NoFile
    /\ io = "decode_error" => files[ToolRow(t).filepath] = Truncated
    /\ IsUpdate(t, r)

\* C23: a content update whose read of the existing file fails
\* for another reason than its absence, or whose file write fails, changes
\* nothing: no snapshot is created, the file and the tool row are unchanged.
C23_IoFailureChangesNothing ==
    [][\A t \in ToolIds, r \in DecodeRequests, io \in IoOutcomes \ {"ok"} :
          FailingContentUpdate(t, r, io)
            => /\ last'.status # "200"
               /\ UNCHANGED <<tool, tool_snapshot, files>>]_vars

\* a restore of snapshot sid of tool t that gets as far as the file write:
\* the tool and the snapshot exist, the path passes the checks and the
\* current file is read
RestoreWrites(t, sid, io) ==
    /\ last'.op = "api.restore_snapshot"
    /\ io \in {"ok", "write_error"}
    /\ get_tool(tool, t) # {}
    /\ get_snapshot(tool_snapshot, t, sid) # {}
    /\ restore_path_valid(ToolRow(t).filepath)
    /\ files[ToolRow(t).filepath] # NoFile
    /\ ApiRestoreSnapshot(t, sid, io)

\* C24: a restore whose file write fails adds no snapshot and changes no
\* row; a restore adds a snapshot only in a step that leaves the file
\* holding the restored content; and a restore whose write succeeds while
\* the previous content is above MAX_CONTENT_SIZE_BYTES adds no snapshot,
\* leaves the file holding the restored content and is answered 200.
C24_RestoreSnapshotAfterWrite ==
    [][\A t \in ToolIds, r \in RestoreRequests(tool_snapshot) :
          RestoreWrites(t, r[1], r[2])
            => LET filepath == ToolRow(t).filepath
                   restored ==
                       {ContentToWrite(ToolRow(t), s) :
                          s \in get_snapshot(tool_snapshot, t, r[1])}
               IN  /\ r[2] = "write_error"
                        => /\ last'.status # "200"
                           /\ UNCHANGED <<tool, tool_snapshot>>
                   /\ tool_snapshot' # tool_snapshot
                        => files'[filepath] \in restored
                   /\ (r[2] = "ok" /\ TooLarge(files[filepath]))
                        => /\ last'.status = "200"
                           /\ files'[filepath] \in restored
                           /\ UNCHANGED <<tool, tool_snapshot>>]_vars

\* a restore was answered 200 and put A back over a content above the size
\* limit, of which no snapshot was made
C24_Witness ==
    /\ last = Response("api.restore_snapshot", "200", "ToolRead")
    /\ files[1] = Content("A")
    /\ \A s \in tool_snapshot : s.name # RestoreName /\ ~TooLarge(s.html_content)

\* C25: no stored tool row has its file already deleted, and the step that
\* removes the tool's directory, whether it succeeds or fails, is taken
\* with the row already deleted; a failed removal leaves the files as they
\* are and the row deleted.
C25_RowDeletedBeforeFile ==
    /\ [](\A r \in tool : files[r.filepath] # NoFile)
    /\ [][\A p \in Procs, io \in RmOutcomes :
            DeleteFile(p, io)
              => /\ \A r \in tool : r.filepath # proc[p].row.filepath
                 /\ tool' = tool
                 /\ io = "rm_error" => files' = files]_vars

\* every request has ended, a DELETE was answered 204, the row is gone and
\* the file is still there: the removal of the directory failed
C25_Witness ==
    /\ tool = {}
    /\ files[SeedTool.filepath] # NoFile
    /\ \A p \in Procs : proc[p].pc \in {"idle", "done"}
    /\ \E p \in Procs : proc[p].op = "delete_tool" /\ proc[p].result = "204"

\* C27: under any interleaving of DELETE /tools/{id} with the requests
\* that create snapshots, every stored snapshot belongs to a stored tool.
C27_NoSnapshotOfDeletedTool ==
    \A s \in tool_snapshot : get_tool(tool, s.tool_id) # {}

\* C28: whenever a content update or a restore replaces the content of the
\* tool's file by a different content, the replaced content (when it is
\* within the size limit) is the content that request read, which is the
\* content its AUTO snapshot holds: taken before the write by a content
\* update, after it by a restore.
C28_OverwrittenContentSnapshotted ==
    [][\A p \in Procs :
          LET filepath == proc[p].row.filepath
          IN  (WriteFile(p) /\ files'[filepath] # files[filepath]
               /\ ~TooLarge(files[filepath]))
                => proc[p].current = files[filepath]]_vars

\* C26: when create_snapshot evicts and snapshots of the tool share a
\* created_at, an evicted snapshot has a smaller id than every surviving
\* snapshot of the tool with the same created_at.
C26_TiesEvictedInIdOrder ==
    [][\A t \in ToolIds :
          LET before == SnapshotsOf(tool_snapshot, t)
              after == SnapshotsOf(tool_snapshot', t)
          IN  \A d \in before \ after, s \in before \cap after :
                 d.created_at = s.created_at => d.id < s.id]_vars

\* C29: a restore leaves every tool row as it was (version, updated_at and
\* metadata), every other file and the snapshots of every other tool, so
\* that no version accepted by update_tool before the restore is a version
\* conflict after it.
C29_RestoreLeavesToolRow ==
    [][\A t \in ToolIds, r \in RestoreRequests(tool_snapshot) :
          (last'.op = "api.restore_snapshot" /\ get_tool(tool, t) # {}
           /\ ApiRestoreSnapshot(t, r[1], r[2]))
            => /\ tool' = tool
               /\ \A row \in get_tool(tool', t) :
                     ~version_conflict(row, StoredVersion(t))
               /\ \A p \in Paths \ {ToolRow(t).filepath} : files'[p] = files[p]
               /\ \A u \in ToolIds \ {t} :
                     SnapshotsOf(tool_snapshot', u) = SnapshotsOf(tool_snapshot, u)]_vars

\* after a restore that saved the previous content, update_tool called with
\* version 1, the version read before the restore, was accepted
C29_Witness ==
    /\ last = Response("repo.update_tool", "ok", "Tool")
    /\ \E row \in tool, s \in tool_snapshot :
          /\ row.version = 2 /\ row.updated_at = now - 1
          /\ s.tool_id = row.id /\ s.name = RestoreName
          /\ s.created_at = now - 2

\* C30: a create_snapshot call for tool t, evictions included, keeps every
\* stored snapshot of another tool as it is and adds no snapshot to
\* another tool.
C30_OtherToolsSnapshotsKept ==
    [][\A t \in ToolIds, c \in SnapshotInputs :
          (last'.op = "repo.create_snapshot"
           /\ CreateSnapshotSameInstant(t, c[1], c[2], c[3]))
            => {s \in tool_snapshot' : s.tool_id # t}
                 = {s \in tool_snapshot : s.tool_id # t}]_vars

\* create_snapshot for tool 2 has evicted the oldest snapshot of tool 2
\* while the snapshots of tool 1 are the ones the run started with
C30_Witness ==
    /\ last = Response("repo.create_snapshot", "ok", "ToolSnapshot")
    /\ SnapshotsOf(tool_snapshot, 1) = SeedSnapshots(SeedCount)
    /\ Cardinality(SnapshotsOf(tool_snapshot, 2)) = MAX_SNAPSHOTS_PER_TOOL
    /\ \E i \in 1..MaxSnapshotId :
          /\ i > SeedCount
          /\ \A s \in SnapshotsOf(tool_snapshot, 2) : s.id > i

====
